---- MODULE Spec2Model ----
(***************************************************************************)
(* A model of lossfunction.py: the usage tracker that aggregates the day's *)
(* usage rows per application and per web domain, compares the totals with *)
(* the goals of goals.json and deducts the overage from the score kept in  *)
(* points.json.                                                            *)
(*                                                                         *)
(* Strings are sequences of one-character strings, so that the string      *)
(* operations of the source (startswith, split, replace, capitalize,       *)
(* lower, strip, float) are computed and not assumed.  Python floats are   *)
(* exact rationals held in fixed point: the number x is the integer        *)
(* x * 120 (see Fx), which holds seconds/60 and half-point rates exactly.  *)
(***************************************************************************)
EXTENDS Integers, Sequences, FiniteSets, TLC

(***************************************************************************)
(* Strings                                                                 *)
(***************************************************************************)

\* Python's None where a string is expected (a NULL column, a missing value).
None == <<"<None>">>

LowerLetters ==
    <<"a","b","c","d","e","f","g","h","i","j","k","l","m",
      "n","o","p","q","r","s","t","u","v","w","x","y","z">>

UpperLetters ==
    <<"A","B","C","D","E","F","G","H","I","J","K","L","M",
      "N","O","P","Q","R","S","T","U","V","W","X","Y","Z">>

Digits == <<"0","1","2","3","4","5","6","7","8","9">>

\* The index of c in the sequence s, 0 when it does not occur.
IndexOf(c, s) ==
    IF \E i \in 1..Len(s) : s[i] = c
    THEN CHOOSE i \in 1..Len(s) : s[i] = c
    ELSE 0

lower_char(c) ==
    IF IndexOf(c, UpperLetters) > 0 THEN LowerLetters[IndexOf(c, UpperLetters)] ELSE c

upper_char(c) ==
    IF IndexOf(c, LowerLetters) > 0 THEN UpperLetters[IndexOf(c, LowerLetters)] ELSE c

\* str.lower()
lower(s) == [i \in 1..Len(s) |-> lower_char(s[i])]

\* str.capitalize(): the first character upper-cased, all the others lower-cased.
capitalize(s) ==
    [i \in 1..Len(s) |-> IF i = 1 THEN upper_char(s[i]) ELSE lower_char(s[i])]

\* str.startswith(prefix)
startswith(s, prefix) ==
    /\ Len(prefix) <= Len(s)
    /\ SubSeq(s, 1, Len(prefix)) = prefix

\* s[n:]
DropFirst(s, n) == SubSeq(s, n + 1, Len(s))

\* sub in s
contains(s, sub) ==
    \E i \in 1..(Len(s) - Len(sub) + 1) : SubSeq(s, i, i + Len(sub) - 1) = sub

\* str.split(sep) for a one-character separator: always at least one part.
RECURSIVE split_at(_, _, _)
split_at(s, sep, cur) ==
    IF s = <<>> THEN <<cur>>
    ELSE IF Head(s) = sep THEN <<cur>> \o split_at(Tail(s), sep, <<>>)
    ELSE split_at(Tail(s), sep, Append(cur, Head(s)))

split(s, sep) == split_at(s, sep, <<>>)

\* str.split(): split on runs of blanks, no empty parts.
RECURSIVE split_blank_at(_, _)
split_blank_at(s, cur) ==
    IF s = <<>> THEN (IF cur = <<>> THEN <<>> ELSE <<cur>>)
    ELSE IF Head(s) = " "
         THEN (IF cur = <<>> THEN <<>> ELSE <<cur>>) \o split_blank_at(Tail(s), <<>>)
         ELSE split_blank_at(Tail(s), Append(cur, Head(s)))

split_blank(s) == split_blank_at(s, <<>>)

\* str.strip()
RECURSIVE lstrip(_)
lstrip(s) == IF s # <<>> /\ Head(s) = " " THEN lstrip(Tail(s)) ELSE s

RECURSIVE rstrip(_)
rstrip(s) ==
    IF s # <<>> /\ s[Len(s)] = " " THEN rstrip(SubSeq(s, 1, Len(s) - 1)) ELSE s

strip(s) == rstrip(lstrip(s))

\* str.replace(old, ''): every non-overlapping occurrence, left to right.
RECURSIVE remove_all(_, _)
remove_all(s, old) ==
    IF s = <<>> THEN <<>>
    ELSE IF startswith(s, old) THEN remove_all(DropFirst(s, Len(old)), old)
    ELSE <<Head(s)>> \o remove_all(Tail(s), old)

\* The first prefix of the ordered list that s starts with, removed (the
\* for ... break loops of both simplify functions).
RECURSIVE strip_first_prefix(_, _)
strip_first_prefix(s, prefixes) ==
    IF prefixes = <<>> THEN s
    ELSE IF startswith(s, Head(prefixes)) THEN DropFirst(s, Len(Head(prefixes)))
    ELSE strip_first_prefix(s, Tail(prefixes))

(***************************************************************************)
(* Name normalisation                                                      *)
(***************************************************************************)

app_prefixes ==
    << <<"c","o","m",".","a","p","p","l","e",".">>,
       <<"c","o","m",".","g","o","o","g","l","e",".">>,
       <<"c","o","m",".","m","i","c","r","o","s","o","f","t",".">>,
       <<"o","r","g",".","m","o","z","i","l","l","a",".">>,
       <<"c","o","m",".","a","d","o","b","e",".">>,
       <<"c","o","m",".","s","p","o","t","i","f","y",".">>,
       <<"c","o","m",".","s","l","a","c","k",".">>,
       <<"c","o","m",".">> >>

simplify_app_name(app_name) ==
    IF app_name = None \/ app_name = <<>> THEN app_name
    ELSE LET stripped == strip_first_prefix(app_name, app_prefixes)
             parts    == split(stripped, ".")
             cut      == IF /\ contains(stripped, <<".">>)
                            /\ Len(parts) > 1
                            /\ parts[1] # <<>>
                         THEN parts[1]
                         ELSE stripped
         IN  capitalize(cut)

subdomains_to_remove ==
    << <<"m",".">>,
       <<"m","o","b","i","l","e",".">>,
       <<"w","e","b",".">>,
       <<"a","p","p",".">>,
       <<"a","p","i",".">> >>

country_suffixes == { <<"u","k">>, <<"a","u">>, <<"c","a">>, <<"j","p">> }

simplify_domain_name(domain) ==
    IF domain = None \/ domain = <<>> THEN domain
    ELSE LET nowww    == remove_all(domain, <<"w","w","w",".">>)
             stripped == strip_first_prefix(nowww, subdomains_to_remove)
             parts    == split(stripped, ".")
             n        == Len(parts)
             main     == IF n >= 2
                         THEN IF parts[n] \in country_suffixes /\ n >= 3
                              THEN parts[n - 2]
                              ELSE parts[n - 1]
                         ELSE parts[1]
         IN  capitalize(main)

(***************************************************************************)
(* Numbers                                                                 *)
(***************************************************************************)

\* The float n in fixed point.
Fx(n) == n * 120

\* The product of two floats in fixed point.
FxMul(a, b) == (a * b) \div Fx(1)

\* float(s) for the decimal literals [+-]digits[.digits]; Fail for any other
\* text over the letters, digits, blank, '.', '+' and '-'.
Fail == [ok |-> FALSE, val |-> 0]

IsDigits(s) == \A i \in 1..Len(s) : IndexOf(s[i], Digits) > 0

RECURSIVE DigitsValue(_)
DigitsValue(s) ==
    IF s = <<>> THEN 0
    ELSE DigitsValue(SubSeq(s, 1, Len(s) - 1)) * 10 + (IndexOf(s[Len(s)], Digits) - 1)

RECURSIVE Pow10(_)
Pow10(k) == IF k = 0 THEN 1 ELSE 10 * Pow10(k - 1)

float_unsigned(s) ==
    LET parts == split(s, ".")
    IN  IF Len(parts) = 1 /\ parts[1] # <<>> /\ IsDigits(parts[1])
        THEN [ok |-> TRUE, val |-> Fx(DigitsValue(parts[1]))]
        ELSE IF /\ Len(parts) = 2
                /\ IsDigits(parts[1]) /\ IsDigits(parts[2])
                /\ (parts[1] # <<>> \/ parts[2] # <<>>)
        THEN [ok  |-> TRUE,
              val |-> Fx(DigitsValue(parts[1]))
                        + (Fx(DigitsValue(parts[2])) \div Pow10(Len(parts[2])))]
        ELSE Fail

float(str) ==
    LET s == strip(str)
    IN  IF s = <<>> THEN Fail
        ELSE IF Head(s) = "-"
        THEN LET u == float_unsigned(Tail(s))
             IN  [ok |-> u.ok, val |-> 0 - u.val]
        ELSE IF Head(s) = "+" THEN float_unsigned(Tail(s))
        ELSE float_unsigned(s)

(***************************************************************************)
(* Python values                                                           *)
(***************************************************************************)

\* A JSON scalar: a string or a number (fixed point).
Str(s) == [t |-> "str", s |-> s, n |-> 0]
Num(n) == [t |-> "num", s |-> <<>>, n |-> n]

\* A dict keeps its insertion order: a sequence of items [k, v] with
\* distinct keys.  A list stands for every JSON document that is no object.
PyDict(items) == [t |-> "dict", items |-> items]
PyList(items) == [t |-> "list", items |-> items]

\* bool(x) of a dict or a list: it is not empty.
truthy(x) == x.items # <<>>

dict_has(items, k) == \E i \in 1..Len(items) : items[i].k = k

\* d.get(k, default)
dict_get(items, k, default) ==
    IF dict_has(items, k)
    THEN items[CHOOSE i \in 1..Len(items) : items[i].k = k].v
    ELSE default

\* d[k] = v: in place for a key the dict has, appended otherwise.
dict_set(items, k, v) ==
    IF dict_has(items, k)
    THEN [i \in 1..Len(items) |-> IF items[i].k = k THEN [k |-> k, v |-> v] ELSE items[i]]
    ELSE Append(items, [k |-> k, v |-> v])

POINTS == <<"P","o","i","n","t","s">>

(***************************************************************************)
(* The stores: goals.json and points.json                                  *)
(***************************************************************************)

\* A file is missing, unreadable (no permission), invalid (text that is no
\* JSON document: garbage, an empty or a cut file) or a JSON document.
FileMissing    == [kind |-> "missing",    doc |-> PyDict(<<>>)]
FileUnreadable == [kind |-> "unreadable", doc |-> PyDict(<<>>)]
FileInvalid    == [kind |-> "invalid",    doc |-> PyDict(<<>>)]
FileJson(doc)  == [kind |-> "json",       doc |-> doc]

\* What a function returns or raises.
Return(v)   == [raised |-> "", value |-> v]
Raise(name) == [raised |-> name, value |-> PyDict(<<>>)]

load_goals(file) ==
    CASE file.kind = "missing"    -> Return(PyDict(<<>>))
      [] file.kind = "invalid"    -> Return(PyDict(<<>>))
      [] file.kind = "unreadable" -> Raise("PermissionError")
      [] file.kind = "json"       -> Return(file.doc)

load_points(file) ==
    CASE file.kind = "missing"    -> Return(PyDict(<<>>))
      [] file.kind = "invalid"    -> Return(PyDict(<<>>))
      [] file.kind = "unreadable" -> Raise("PermissionError")
      [] file.kind = "json"       -> Return(file.doc)

\* open(filename, 'w') may fail and leave the file as it was; it truncates
\* the file when it succeeds, and json.dump may then fail (a full disk, an
\* I/O error) and leave a cut file.  Both functions catch the exception,
\* print it and return.
SaveOutcomes == {"ok", "open_error", "write_error"}

save_goals(goals, file, outcome) ==
    CASE outcome = "ok"          -> FileJson(goals)
      [] outcome = "open_error"  -> file
      [] outcome = "write_error" -> FileInvalid

save_points(points, file, outcome) ==
    CASE outcome = "ok"          -> FileJson(points)
      [] outcome = "open_error"  -> file
      [] outcome = "write_error" -> FileInvalid

(***************************************************************************)
(* Aggregation                                                             *)
(***************************************************************************)

\* A slip: whole minutes, as integer division gives.
usage_minutes_whole(usage_seconds) == Fx(usage_seconds \div 60)

\* df['usage_minutes'] = df['usage_seconds'] / 60
usage_minutes(usage_seconds) == Fx(usage_seconds) \div 60

\* The data frame of main: the rows with the derived columns.
DataFrame(results) ==
    [i \in 1..Len(results) |->
        [app               |-> results[i].app,
         domain            |-> results[i].domain,
         usage_seconds     |-> results[i].usage_seconds,
         usage_minutes     |-> usage_minutes(results[i].usage_seconds),
         app_simplified    |-> simplify_app_name(results[i].app),
         domain_simplified |-> simplify_domain_name(results[i].domain)]]

\* df.groupby(col)['usage_minutes'].sum(): row by row, a row whose key is
\* None is dropped.
RECURSIVE groupby_sum(_, _, _)
groupby_sum(df, col, n) ==
    IF n = 0 THEN <<>>
    ELSE LET acc == groupby_sum(df, col, n - 1)
             key == df[n][col]
         IN  IF key = None THEN acc
             ELSE IF key \in DOMAIN acc
             THEN [acc EXCEPT ![key] = @ + df[n].usage_minutes]
             ELSE acc @@ (key :> df[n].usage_minutes)

\* df[df['domain_simplified'].notna()]
RECURSIVE notna_domain(_)
notna_domain(df) ==
    IF df = <<>> THEN <<>>
    ELSE IF Head(df).domain_simplified = None THEN notna_domain(Tail(df))
    ELSE <<Head(df)>> \o notna_domain(Tail(df))

app_usage(df) == groupby_sum(df, "app_simplified", Len(df))

domain_usage(df) ==
    groupby_sum(notna_domain(df), "domain_simplified", Len(notna_domain(df)))

(***************************************************************************)
(* Goals against usage                                                     *)
(***************************************************************************)

NoUsage == [found |-> FALSE, usage |-> 0]

\* A slip: the two lookups in the other order.
match_usage_domain_first(target, apps, domains) ==
    IF target \in DOMAIN domains THEN [found |-> TRUE, usage |-> domains[target]]
    ELSE IF target \in DOMAIN apps THEN [found |-> TRUE, usage |-> apps[target]]
    ELSE [found |-> FALSE, usage |-> 0]

\* The usage a goal target is matched with: the app total first, then the
\* domain total, else nothing.
match_usage(target, apps, domains) ==
    IF target \in DOMAIN apps THEN [found |-> TRUE, usage |-> apps[target]]
    ELSE IF target \in DOMAIN domains THEN [found |-> TRUE, usage |-> domains[target]]
    ELSE NoUsage

\* check_goals: the lines it prints, one per goal.  goals.items() raises
\* for a list.
check_goals(df, goals) ==
    IF ~truthy(goals) THEN Return(<<>>)
    ELSE IF goals.t # "dict" THEN Raise("AttributeError")
    ELSE LET apps    == app_usage(df)
             domains == domain_usage(df)
         IN  Return([i \in 1..Len(goals.items) |->
                       LET m == match_usage(goals.items[i].k, apps, domains)
                       IN  [target |-> goals.items[i].k,
                            found  |-> m.found,
                            usage  |-> m.usage]])

\* parse_time_limit of update_points, for a string.
HOUR   == <<"h","o","u","r">>
MINUTE == <<"m","i","n","u","t","e">>

parse_time_limit(limit_str) ==
    LET s     == strip(lower(limit_str))
        words == split_blank(s)
    IN  IF contains(s, HOUR)
        THEN LET hours == float(words[1])
             IN  [ok |-> hours.ok, val |-> hours.val * 60]
        ELSE IF contains(s, MINUTE)
        THEN float(words[1])
        ELSE float(s)

(***************************************************************************)
(* Scoring                                                                 *)
(***************************************************************************)

\* points_per_minute=0.5
DefaultRate == Fx(1) \div 2

\* A slip: the comparison written >=.
exceeds_or_equal(actual_usage, limit_minutes) == actual_usage >= limit_minutes

\* if actual_usage > limit_minutes:
exceeds(actual_usage, limit_minutes) == actual_usage > limit_minutes

\* A slip: one point a minute, whatever the rate.
points_lost_flat(overage, points_per_minute) == overage

\* points_lost = overage * points_per_minute
points_lost_for(overage, points_per_minute) == FxMul(overage, points_per_minute)

\* A slip: the score kept from going below zero.
deduct_floor(current_points, points_lost) ==
    IF current_points - points_lost < 0 THEN 0 ELSE current_points - points_lost

\* current_points -= points_lost: no floor, the score may go negative.
deduct(current_points, points_lost) == current_points - points_lost

\* The for loop of update_points over goals.items(), from the state acc =
\* [raised, current, violations].  limit_str.lower() raises for a value
\* that is no string; current_points -= points_lost raises for a score that
\* is no number.
RECURSIVE score_goals(_, _, _, _, _)
score_goals(items, apps, domains, rate, acc) ==
    IF items = <<>> \/ acc.raised # "" THEN acc
    ELSE LET target    == Head(items).k
             limit_str == Head(items).v
             rest      == Tail(items)
         IN  IF limit_str.t # "str"
             THEN [acc EXCEPT !.raised = "AttributeError"]
             ELSE LET limit_minutes == parse_time_limit(limit_str.s)
                      actual        == match_usage(target, apps, domains)
                  IN  IF ~limit_minutes.ok
                      THEN score_goals(rest, apps, domains, rate, acc)
                      ELSE IF actual.found /\ exceeds(actual.usage, limit_minutes.val)
                      THEN LET overage     == actual.usage - limit_minutes.val
                               points_lost == points_lost_for(overage, rate)
                           IN  IF acc.current.t # "num"
                               THEN [acc EXCEPT !.raised = "TypeError"]
                               ELSE score_goals(rest, apps, domains, rate,
                                      [raised     |-> "",
                                       current    |-> Num(deduct(acc.current.n, points_lost)),
                                       violations |-> Append(acc.violations,
                                           [target      |-> target,
                                            limit       |-> limit_minutes.val,
                                            actual      |-> actual.usage,
                                            overage     |-> overage,
                                            points_lost |-> points_lost])])
                      ELSE score_goals(rest, apps, domains, rate, acc)

\* What update_points leaves: the exception it raised (if any), the points
\* dict, the violations, the outcome of its save_points call ("none" when
\* it made none) and the points file.
Updated(raised, points, violations, saved, file) ==
    [raised |-> raised, points |-> points, violations |-> violations,
     saved |-> saved, file |-> file]

\* A slip: the score saved only when a goal was violated.
update_points_saving_violations(df, goals, points, file, points_per_minute, outcome) ==
    IF ~truthy(goals) \/ ~truthy(points)
    THEN Updated("", points, <<>>, "none", file)
    ELSE IF points.t # "dict" \/ goals.t # "dict"
    THEN Updated("AttributeError", points, <<>>, "none", file)
    ELSE LET current_points == dict_get(points.items, POINTS, Num(0))
             acc == score_goals(goals.items, app_usage(df), domain_usage(df),
                                points_per_minute,
                                [raised |-> "", current |-> current_points,
                                 violations |-> <<>>])
             updated == PyDict(dict_set(points.items, POINTS, acc.current))
         IN  IF acc.raised # ""
             THEN Updated(acc.raised, points, acc.violations, "none", file)
             ELSE IF acc.current.t # "num"
             THEN Updated("TypeError", updated, acc.violations, "none", file)
             ELSE IF acc.violations = <<>>
             THEN Updated("", updated, acc.violations, "none", file)
             ELSE Updated("", updated, acc.violations, outcome,
                          save_points(updated, file, outcome))

update_points(df, goals, points, file, points_per_minute, outcome) ==
    IF ~truthy(goals) \/ ~truthy(points)
    THEN Updated("", points, <<>>, "none", file)
    ELSE IF points.t # "dict" \/ goals.t # "dict"
    THEN Updated("AttributeError", points, <<>>, "none", file)
    ELSE LET current_points == dict_get(points.items, POINTS, Num(0))
             acc == score_goals(goals.items, app_usage(df), domain_usage(df),
                                points_per_minute,
                                [raised |-> "", current |-> current_points,
                                 violations |-> <<>>])
             updated == PyDict(dict_set(points.items, POINTS, acc.current))
         IN  IF acc.raised # ""
             THEN Updated(acc.raised, points, acc.violations, "none", file)
             ELSE IF acc.current.t # "num"
             THEN Updated("TypeError", updated, acc.violations, "none", file)
             ELSE Updated("", updated, acc.violations, outcome,
                          save_points(updated, file, outcome))

(***************************************************************************)
(* Interactive editing                                                     *)
(***************************************************************************)

\* setgoals.  typed = [valid, entries]: whether the number of goals typed
\* is an integer, and the (app, limit) pairs typed after it, stripped.
setgoals(goals, typed) ==
    IF truthy(goals) /\ goals.t # "dict" THEN Raise("AttributeError")
    ELSE IF ~typed.valid \/ typed.entries = <<>> THEN Return(goals)
    ELSE LET RECURSIVE add(_, _)
             add(items, entries) ==
                 IF entries = <<>> THEN items
                 ELSE LET e == Head(entries)
                      IN  IF e.app # <<>> /\ e.limit # <<>>
                          THEN add(dict_set(items, e.app, Str(e.limit)), Tail(entries))
                          ELSE add(items, Tail(entries))
             settable == \E i \in 1..Len(typed.entries) :
                            typed.entries[i].app # <<>> /\ typed.entries[i].limit # <<>>
         IN  IF goals.t # "dict" /\ settable THEN Raise("TypeError")
             ELSE Return([goals EXCEPT !.items = add(goals.items, typed.entries)])

\* set_points.  typed = [reset, newnum, num]: the answer to the reset
\* prompt, the text typed as the new number (an integer literal or not) and
\* the text typed at 'Point Goal: ', stripped.
set_points(points, typed) ==
    IF truthy(points)
    THEN IF points.t # "dict" THEN Raise("AttributeError")
         ELSE IF ~typed.reset THEN Return(points)
         ELSE LET loss   == points.items[Len(points.items)].k
                  newnum == float(typed.newnum)
              IN  IF ~newnum.ok \/ contains(typed.newnum, <<".">>)
                  THEN Raise("ValueError")
                  ELSE Return(PyDict(dict_set(points.items, loss, Num(newnum.val))))
    ELSE IF typed.num = <<>> THEN Return(points)
         ELSE IF points.t # "dict" THEN Raise("TypeError")
         ELSE Return(PyDict(dict_set(points.items, POINTS, Str(typed.num))))

(***************************************************************************)
(* Bounds and the inputs drawn within them                                 *)
(***************************************************************************)

MaxRows == 2
MaxGoals == 2
MaxRuns == 2

YOUTUBE == <<"Y","o","u","t","u","b","e">>
SAFARI  == <<"S","a","f","a","r","i">>

Row(app, domain, usage_seconds) ==
    [app |-> app, domain |-> domain, usage_seconds |-> usage_seconds]

\* Rows of the Knowledge database: a web-usage row of Safari on youtube.com
\* (90 minutes), one of Chrome on the mobile site (60 minutes), an app row
\* of the YouTube app (30 minutes) and an app row of Safari (90 seconds).
RowChoices ==
    { Row(<<"c","o","m",".","a","p","p","l","e",".","S","a","f","a","r","i">>,
          <<"w","w","w",".","y","o","u","t","u","b","e",".","c","o","m">>, 5400),
      Row(<<"c","o","m",".","g","o","o","g","l","e",".","C","h","r","o","m","e">>,
          <<"m",".","y","o","u","t","u","b","e",".","c","o","m">>, 3600),
      Row(<<"c","o","m",".","g","o","o","g","l","e",".","Y","o","u","T","u","b","e">>,
          None, 1800),
      Row(SAFARI, None, 90) }

SeqsUpTo(S, n) == UNION { [1..m -> S] : m \in 0..n }

RowSeqs == SeqsUpTo(RowChoices, MaxRows)

\* The rows drawn in a run of main: all but the YouTube app's, in any order,
\* no row twice.
StoredRows == { r \in RowChoices : r.usage_seconds # 1800 }

StoredRowSeqs ==
    { s \in SeqsUpTo(StoredRows, MaxRows) : \A i, j \in 1..Len(s) : s[i] = s[j] => i = j }

\* query_database returns None (no database, no permission, an SQL error)
\* or the list of rows.
QueryNone == [none |-> TRUE, rows |-> <<>>]
QueryRows(rows) == [none |-> FALSE, rows |-> rows]
QueryResults == {QueryNone} \cup {QueryRows(rows) : rows \in StoredRowSeqs}

GoalTargets == {YOUTUBE, SAFARI}

\* Limits as stored: '1 hour', '30 minutes', '1.5', 'banana', '2hours' and
\* the JSON number 30.
GoalLimits ==
    { Str(<<"1"," ","h","o","u","r">>),
      Str(<<"3","0"," ","m","i","n","u","t","e","s">>),
      Str(<<"1",".","5">>),
      Str(<<"b","a","n","a","n","a">>),
      Str(<<"2","h","o","u","r","s">>),
      Num(Fx(30)) }

DistinctKeys(items) ==
    \A i, j \in 1..Len(items) : items[i].k = items[j].k => i = j

DictsOver(keys, values, n) ==
    { PyDict(items) : items \in
        { s \in SeqsUpTo({[k |-> k, v |-> v] : k \in keys, v \in values}, n) :
            DistinctKeys(s) } }

GoalDicts == DictsOver(GoalTargets, GoalLimits, MaxGoals)

\* Scores: 100, 0, -7.5 and the text '100'.
PointValues == { Num(Fx(100)), Num(0), Num(0 - Fx(15) \div 2), Str(<<"1","0","0">>) }

PointDicts == DictsOver({POINTS}, PointValues, 1)

Rates == { DefaultRate, Fx(2) }

MaxTyped == 1

\* A JSON document that is a list, not an object.
ListOf(v) == PyList(<<[k |-> <<>>, v |-> v]>>)

\* Limits of the goal store in a run of main: '1 hour', 'banana', the number 30.
StoredLimits ==
    { Str(<<"1"," ","h","o","u","r">>), Str(<<"b","a","n","a","n","a">>), Num(Fx(30)) }

GoalFiles ==
    {FileMissing, FileUnreadable, FileInvalid, FileJson(PyList(<<>>)), FileJson(ListOf(Num(1)))}
        \cup {FileJson(d) : d \in DictsOver(GoalTargets, StoredLimits, MaxGoals)}

PointFiles ==
    {FileMissing, FileUnreadable, FileInvalid, FileJson(PyList(<<>>)), FileJson(ListOf(Num(1)))}
        \cup {FileJson(d) : d \in DictsOver({POINTS}, {Num(Fx(100)), Num(0)}, 1)}

\* What the user types in setgoals: no integer, or a number of goals and
\* that many (app, limit) pairs.
EntryChoices ==
    { [app |-> YOUTUBE, limit |-> <<"3","0"," ","m","i","n","u","t","e","s">>],
      [app |-> <<>>,    limit |-> <<"1"," ","h","o","u","r">>] }

GoalsTyped ==
    {[valid |-> FALSE, entries |-> <<>>]}
        \cup {[valid |-> TRUE, entries |-> e] : e \in SeqsUpTo(EntryChoices, MaxTyped)}

\* What the user types in set_points.
PointsTyped ==
    [reset  : BOOLEAN,
     newnum : { <<"5","0">>, <<"x">> },
     num    : { <<>>, <<"1","0","0">> }]

(***************************************************************************)
(* State                                                                   *)
(***************************************************************************)

VARIABLES
    goalsFile,    \* goals.json
    pointsFile,   \* points.json
    pc,           \* where the run is
    results,      \* what query_database returned
    df,           \* the data frame built from it, derived columns included
    dfapp,        \* main's minutes per simplified app
    dfdomian,     \* main's minutes per simplified domain
    goals,        \* the goals of main (or the argument of a direct call)
    points,       \* the points of main (or the argument of a direct call)
    rate,         \* points_per_minute
    report,       \* the lines check_goals printed
    violations,   \* the violations of update_points
    raised,       \* the exception that ended the run, "" for none
    saved,        \* the outcome of update_points' save_points call, or "none"
    before,       \* the points handed to update_points
    scored,       \* update_points went through the goals and returned
    file0,        \* points.json when the run began
    runs,         \* runs started
    prev          \* the run before this one

vars == <<goalsFile, pointsFile, pc, results, df, dfapp, dfdomian, goals, points, rate, report,
          violations, raised, saved, before, scored, file0, runs, prev>>

EmptyDict == PyDict(<<>>)

NoPrev ==
    [scored |-> FALSE, saved |-> "none", results |-> QueryNone, goals |-> EmptyDict,
     before |-> EmptyDict, after |-> EmptyDict]

\* The locals of a run that has not begun.
Fresh ==
    /\ pc = "start"
    /\ results = QueryNone
    /\ df = <<>>
    /\ dfapp = <<>>
    /\ dfdomian = <<>>
    /\ goals = EmptyDict
    /\ points = EmptyDict
    /\ report = <<>>
    /\ violations = <<>>
    /\ raised = ""
    /\ saved = "none"
    /\ before = EmptyDict
    /\ scored = FALSE

Init ==
    /\ goalsFile \in GoalFiles
    /\ pointsFile \in PointFiles
    /\ rate = DefaultRate
    /\ file0 = pointsFile
    /\ runs = 1
    /\ prev = NoPrev
    /\ Fresh

(***************************************************************************)
(* main                                                                    *)
(***************************************************************************)

\* The run ends with an exception.
Crash(name) ==
    /\ raised' = name
    /\ pc' = "done"

\* A slip: the run goes on to the goals whatever query_database returned.
Query_going_on ==
    /\ pc = "start"
    /\ \E r \in QueryResults :
          /\ results' = r
          /\ \E frame \in {DataFrame(r.rows)} :
                /\ df' = frame
                /\ dfapp' = app_usage(frame)
                /\ dfdomian' = domain_usage(frame)
          /\ pc' = "load_goals"
    /\ UNCHANGED <<goalsFile, pointsFile, goals, points, rate, report, violations,
                   raised, saved, before, scored, file0, runs, prev>>

\* results = query_database(target_date=date.today()); if results: ...
\* else: print("No data retrieved. ...")
Query ==
    /\ pc = "start"
    /\ \E r \in QueryResults :
          /\ results' = r
          /\ \E frame \in {DataFrame(r.rows)} :
                /\ df' = frame
                /\ dfapp' = app_usage(frame)
                /\ dfdomian' = domain_usage(frame)
          /\ pc' = IF r.none \/ r.rows = <<>> THEN "done" ELSE "load_goals"
    /\ UNCHANGED <<goalsFile, pointsFile, goals, points, rate, report, violations,
                   raised, saved, before, scored, file0, runs, prev>>

\* goals = load_goals(); if goals: check_goals(df, goals)
LoadGoals ==
    /\ pc = "load_goals"
    /\ \E loaded \in {load_goals(goalsFile)}, checked \in {check_goals(df, load_goals(goalsFile).value)} :
           IF loaded.raised # ""
           THEN Crash(loaded.raised) /\ UNCHANGED <<goals, report>>
           ELSE IF checked.raised # ""
           THEN Crash(checked.raised) /\ goals' = loaded.value /\ UNCHANGED report
           ELSE /\ goals' = loaded.value
                /\ report' = checked.value
                /\ pc' = "manage_goals"
                /\ UNCHANGED raised
    /\ UNCHANGED <<goalsFile, pointsFile, results, df, dfapp, dfdomian, points, rate, violations,
                   saved, before, scored, file0, runs, prev>>

\* 'Would you like to manage goals?' answered no.
DeclineGoals ==
    /\ pc = "manage_goals"
    /\ pc' = "points"
    /\ UNCHANGED <<goalsFile, pointsFile, results, df, dfapp, dfdomian, goals, points, rate, report,
                   violations, raised, saved, before, scored, file0, runs, prev>>

\* ... answered yes: goals = setgoals(goals); save_goals(goals)
EditGoals ==
    /\ pc = "manage_goals"
    /\ \E typed \in GoalsTyped, outcome \in SaveOutcomes :
          LET edited == setgoals(goals, typed)
          IN  IF edited.raised # ""
              THEN Crash(edited.raised) /\ UNCHANGED <<goals, goalsFile>>
              ELSE /\ goals' = edited.value
                   /\ goalsFile' = save_goals(edited.value, goalsFile, outcome)
                   /\ pc' = "points"
                   /\ UNCHANGED raised
    /\ UNCHANGED <<pointsFile, results, df, dfapp, dfdomian, points, rate, report, violations,
                   saved, before, scored, file0, runs, prev>>

\* points = load_points(); 'Would you like to set points?' answered no.
KeepPoints ==
    /\ pc = "points"
    /\ LET loaded == load_points(pointsFile)
       IN  IF loaded.raised # ""
           THEN Crash(loaded.raised) /\ UNCHANGED points
           ELSE /\ points' = loaded.value
                /\ pc' = "update"
                /\ UNCHANGED raised
    /\ UNCHANGED <<goalsFile, pointsFile, results, df, dfapp, dfdomian, goals, rate, report, violations,
                   saved, before, scored, file0, runs, prev>>

\* ... answered yes: points = set_points(points); save_points(points)
EditPoints ==
    /\ pc = "points"
    /\ load_points(pointsFile).raised = ""
    /\ \E typed \in PointsTyped, outcome \in SaveOutcomes :
          LET loaded == load_points(pointsFile)
              edited == set_points(loaded.value, typed)
          IN  IF edited.raised # ""
              THEN Crash(edited.raised) /\ points' = loaded.value /\ UNCHANGED pointsFile
              ELSE /\ points' = edited.value
                   /\ pointsFile' = save_points(edited.value, pointsFile, outcome)
                   /\ pc' = "update"
                   /\ UNCHANGED raised
    /\ UNCHANGED <<goalsFile, results, df, dfapp, dfdomian, goals, rate, report, violations,
                   saved, before, scored, file0, runs, prev>>

\* if goals and points: points = update_points(df, goals, points)
Update ==
    /\ pc = "update"
    /\ IF truthy(goals) /\ truthy(points)
       THEN \E outcome \in SaveOutcomes :
               \E u \in {update_points(df, goals, points, pointsFile, rate, outcome)} :
                   /\ points' = u.points
                   /\ violations' = u.violations
                   /\ raised' = u.raised
                   /\ saved' = u.saved
                   /\ pointsFile' = u.file
                   /\ before' = points
                   /\ scored' = (u.raised = "")
       ELSE UNCHANGED <<points, violations, raised, saved, pointsFile, before, scored>>
    /\ pc' = "done"
    /\ UNCHANGED <<goalsFile, results, df, dfapp, dfdomian, goals, rate, report, file0, runs, prev>>

Next == Query \/ LoadGoals \/ DeclineGoals \/ EditGoals \/ KeepPoints \/ EditPoints \/ Update

Spec == Init /\ [][Next]_vars

(***************************************************************************)
(* Run after run: the scheduler calls main again, and both prompts are     *)
(* answered no.                                                            *)
(***************************************************************************)

TwiceGoalFiles == {FileMissing} \cup {FileJson(d) : d \in DictsOver(GoalTargets, StoredLimits, MaxGoals)}

TwicePointFiles ==
    {FileMissing, FileInvalid}
        \cup {FileJson(d) : d \in DictsOver({POINTS}, {Num(Fx(100)), Num(0)}, 1)}

InitTwice ==
    /\ goalsFile \in TwiceGoalFiles
    /\ pointsFile \in TwicePointFiles
    /\ rate = DefaultRate
    /\ file0 = pointsFile
    /\ runs = 1
    /\ prev = NoPrev
    /\ Fresh

\* The next run of main begins: a new process, the stores as they were left.
Restart ==
    /\ pc = "done"
    /\ runs < MaxRuns
    /\ runs' = runs + 1
    /\ prev' = [scored |-> scored, saved |-> saved, results |-> results,
                goals |-> goals, before |-> before, after |-> points]
    /\ file0' = pointsFile
    /\ pc' = "start"
    /\ results' = QueryNone
    /\ df' = <<>>
    /\ dfapp' = <<>>
    /\ dfdomian' = <<>>
    /\ goals' = EmptyDict
    /\ points' = EmptyDict
    /\ report' = <<>>
    /\ violations' = <<>>
    /\ raised' = ""
    /\ saved' = "none"
    /\ before' = EmptyDict
    /\ scored' = FALSE
    /\ UNCHANGED <<goalsFile, pointsFile, rate>>

NextTwice == Query \/ LoadGoals \/ DeclineGoals \/ KeepPoints \/ Update \/ Restart

SpecTwice == InitTwice /\ [][NextTwice]_vars

(***************************************************************************)
(* check_goals and update_points called on any frame, goals, points and    *)
(* rate.                                                                   *)
(***************************************************************************)

InitScore ==
    /\ \E rows \in RowSeqs :
          /\ results = QueryRows(rows)
          /\ df = DataFrame(rows)
    /\ dfapp = <<>>
    /\ dfdomian = <<>>
    /\ goals \in GoalDicts
    /\ points \in PointDicts
    /\ rate \in Rates
    /\ goalsFile = FileMissing
    /\ pointsFile = FileMissing
    /\ file0 = FileMissing
    /\ pc = "call"
    /\ report = <<>>
    /\ violations = <<>>
    /\ raised = ""
    /\ saved = "none"
    /\ before = EmptyDict
    /\ scored = FALSE
    /\ runs = 1
    /\ prev = NoPrev

CallCheckGoals ==
    /\ pc = "call"
    /\ \E checked \in {check_goals(df, goals)} :
          /\ report' = checked.value
          /\ raised' = checked.raised
          /\ pc' = IF checked.raised = "" THEN "checked" ELSE "done"
    /\ UNCHANGED <<goalsFile, pointsFile, results, df, dfapp, dfdomian, goals, points, rate,
                   violations, saved, before, scored, file0, runs, prev>>

CallUpdatePoints ==
    /\ pc = "checked"
    /\ \E outcome \in SaveOutcomes :
          \E u \in {update_points(df, goals, points, pointsFile, rate, outcome)} :
              /\ points' = u.points
              /\ violations' = u.violations
              /\ raised' = u.raised
              /\ saved' = u.saved
              /\ pointsFile' = u.file
              /\ before' = points
              /\ scored' = (u.raised = "" /\ truthy(goals) /\ truthy(points))
    /\ pc' = "done"
    /\ UNCHANGED <<goalsFile, results, df, dfapp, dfdomian, goals, rate, report, file0, runs, prev>>

NextScore == CallCheckGoals \/ CallUpdatePoints

SpecScore == InitScore /\ [][NextScore]_vars

(***************************************************************************)
(* simplify_app_name called on one identifier                              *)
(***************************************************************************)

\* Identifiers as the knowledge database holds them: a bundle prefix or
\* none (one of them doubled, one a prefix of another entry of the list),
\* a name in some letter case or none, and an extension or none.
AppIdPrefixes ==
    { <<>>,
      <<"c","o","m",".","a","p","p","l","e",".">>,
      <<"c","o","m",".">>,
      <<"c","o","m",".","c","o","m",".">>,
      <<"o","r","g",".","m","o","z","i","l","l","a",".">>,
      <<"c","o","m",".","a","p","p","l","e",".","c","o","m",".","a","p","p","l","e",".">> }

AppIdStems ==
    { <<>>,
      <<"S","a","f","a","r","i">>,
      <<"f","i","r","e","f","o","x">>,
      <<"T","e","x","t","E","d","i","t">>,
      <<"i","T","e","r","m","2">> }

AppIdSuffixes == { <<>>, <<".","a","p","p">>, <<".">>, <<".","H","e","l","p","e","r",".","x">> }

AppIds ==
    { p \o n \o x : p \in AppIdPrefixes, n \in AppIdStems, x \in AppIdSuffixes } \ {<<>>}

InitNames ==
    /\ \E id \in AppIds : results = QueryRows(<<Row(id, None, 60)>>)
    /\ df = <<>>
    /\ dfapp = <<>>
    /\ dfdomian = <<>>
    /\ goals = EmptyDict
    /\ points = EmptyDict
    /\ rate = DefaultRate
    /\ goalsFile = FileMissing
    /\ pointsFile = FileMissing
    /\ file0 = FileMissing
    /\ pc = "raw"
    /\ report = <<>>
    /\ violations = <<>>
    /\ raised = ""
    /\ saved = "none"
    /\ before = EmptyDict
    /\ scored = FALSE
    /\ runs = 1
    /\ prev = NoPrev

\* df['app_simplified'] = df['app'].apply(simplify_app_name)
ApplySimplify ==
    /\ pc = "raw"
    /\ df' = DataFrame(results.rows)
    /\ pc' = "named"
    /\ UNCHANGED <<goalsFile, pointsFile, results, dfapp, dfdomian, goals, points, rate, report,
                   violations, raised, saved, before, scored, file0, runs, prev>>

NextNames == ApplySimplify

SpecNames == InitNames /\ [][NextNames]_vars

(***************************************************************************)
(* Properties                                                              *)
(***************************************************************************)

RECURSIVE SumSeconds(_, _)
SumSeconds(rows, I) ==
    IF I = {} THEN 0
    ELSE LET i == CHOOSE j \in I : TRUE
         IN  rows[i].usage_seconds + SumSeconds(rows, I \ {i})

\* The rows whose app, or whose domain, normalises to key.
AppRows(rows, key) ==
    { i \in 1..Len(rows) : rows[i].app # None /\ simplify_app_name(rows[i].app) = key }

DomainRows(rows, key) ==
    { i \in 1..Len(rows) :
        rows[i].domain # None /\ simplify_domain_name(rows[i].domain) = key }

AppKeys(rows) ==
    { simplify_app_name(rows[i].app) : i \in {j \in 1..Len(rows) : rows[j].app # None} }

DomainKeys(rows) ==
    { simplify_domain_name(rows[i].domain) :
        i \in {j \in 1..Len(rows) : rows[j].domain # None} }

\* total is exactly seconds / 60 minutes: no rounding on the way.
IsMinutesOf(total, seconds) == total * 60 = Fx(seconds)

RECURSIVE SumLost(_)
SumLost(vs) == IF vs = <<>> THEN 0 ELSE Head(vs).points_lost + SumLost(Tail(vs))

\* The score in a points dict.
Score(p) == dict_get(p.items, POINTS, Num(0)).n

\* For goal i of update_points' goals: its limit parses, and the usage it is
\* matched with (in minutes, 0 and not found when there is none).
LimitParses(i) ==
    /\ goals.items[i].v.t = "str"
    /\ parse_time_limit(goals.items[i].v.s).ok

LimitOf(i) == parse_time_limit(goals.items[i].v.s).val

Matched(i) == match_usage(goals.items[i].k, app_usage(df), domain_usage(df))

\* The goals over their limit, in the order of the mapping.
Over == { i \in 1..Len(goals.items) :
            LimitParses(i) /\ Matched(i).found /\ Matched(i).usage > LimitOf(i) }

RECURSIVE SumOver(_)
SumOver(I) ==
    IF I = {} THEN 0
    ELSE LET i == CHOOSE j \in I : TRUE
         IN  ((Matched(i).usage - LimitOf(i)) * rate) \div Fx(1) + SumOver(I \ {i})

\* update_points went through the goals and returned.
Scored == pc = "done" /\ scored

L_1hour == <<"1"," ","h","o","u","r">>

ExampleGoals == PyDict(<<[k |-> YOUTUBE, v |-> Str(L_1hour)]>>)

\* The example: goals {Youtube: '1 hour'}, 90 minutes on the domain Youtube
\* and none on an app Youtube, rate 0.5, score 100.
IsExample ==
    /\ goals = ExampleGoals
    /\ YOUTUBE \notin DOMAIN app_usage(df)
    /\ YOUTUBE \in DOMAIN domain_usage(df)
    /\ domain_usage(df)[YOUTUBE] = Fx(90)
    /\ rate = DefaultRate
    /\ before = PyDict(<<[k |-> POINTS, v |-> Num(Fx(100))]>>)

\* C1: after a scoring run Points is the starting score minus the sum, over
\* the goals whose limit parses and whose matched usage exceeds it, of
\* (actual - limit) * rate; in the example there is one violation with
\* overage 30 and points_lost 15, and Points is 85.
C1_ScoreIsStartMinusOverage ==
    Scored =>
        /\ Score(points) = Score(before) - SumOver(Over)
        /\ IsExample =>
              /\ Len(violations) = 1
              /\ violations[1].overage = Fx(30)
              /\ violations[1].points_lost = Fx(15)
              /\ Score(points) = Fx(85)

C1_Witness == Scored /\ IsExample /\ Score(points) = Fx(85)

\* C2: a goal yields a violation exactly when its limit parses and its
\* matched usage is strictly greater than the limit: usage equal to or below
\* the limit gives no violation, and a run with no such goal leaves the score
\* as it was.
C2_ViolationIffStrictlyOver ==
    Scored =>
        /\ \A i \in 1..Len(goals.items) :
              (\E n \in 1..Len(violations) : violations[n].target = goals.items[i].k)
                  <=> i \in Over
        /\ Len(violations) = Cardinality(Over)
        /\ Over = {} => Score(points) = Score(before)

\* A goal whose usage is exactly its limit went through a scoring run.
C2_Witness ==
    /\ Scored
    /\ \E i \in 1..Len(goals.items) :
          /\ LimitParses(i)
          /\ Matched(i).found
          /\ Matched(i).usage = LimitOf(i)
          /\ \A n \in 1..Len(violations) : violations[n].target # goals.items[i].k

\* C3: for a goal target that is a key of both totals, check_goals and
\* update_points compare the app total, and the domain total only for a
\* target that is no key of the app totals.
C3_AppTotalTakesPrecedence ==
    LET AppIdx(k) == { i \in 1..Len(df) : df[i].app_simplified = k }
        DomainIdx(k) == { i \in 1..Len(df) : df[i].domain_simplified = k }
        AppTotal(k) == SumSeconds(df, AppIdx(k))
        DomainTotal(k) == SumSeconds(df, DomainIdx(k))
        UsedTotal(k) == IF AppIdx(k) # {} THEN AppTotal(k) ELSE DomainTotal(k)
    IN  /\ pc \in {"checked", "done"} /\ raised = "" =>
            \A i \in 1..Len(report) :
                report[i].found =>
                    /\ AppIdx(report[i].target) \cup DomainIdx(report[i].target) # {}
                    /\ IsMinutesOf(report[i].usage, UsedTotal(report[i].target))
        /\ Scored =>
            /\ \A n \in 1..Len(violations) :
                  IsMinutesOf(violations[n].actual, UsedTotal(violations[n].target))
            /\ \A i \in 1..Len(goals.items) :
                  LET k == goals.items[i].k
                  IN  LimitParses(i) /\ AppIdx(k) # {} =>
                        ((\E n \in 1..Len(violations) : violations[n].target = k)
                            <=> Fx(AppTotal(k)) > LimitOf(i) * 60)

\* A target with an app total within its limit and a domain total over it
\* went through check_goals and a scoring run.
C3_Witness ==
    /\ Scored
    /\ \E i \in 1..Len(goals.items) :
          LET k == goals.items[i].k
          IN  /\ LimitParses(i)
              /\ k \in DOMAIN app_usage(df)
              /\ k \in DOMAIN domain_usage(df)
              /\ app_usage(df)[k] <= LimitOf(i)
              /\ domain_usage(df)[k] > LimitOf(i)
              /\ report[i].usage = app_usage(df)[k]

\* update_points was called with goals and a numeric score, and is over.
UpdateCalled ==
    /\ pc = "done"
    /\ truthy(before)
    /\ truthy(goals)
    /\ goals.t = "dict"
    /\ dict_get(before.items, POINTS, Num(0)).t = "num"

\* C4: a goal whose stored limit cannot be parsed as a number, whatever the
\* stored value, is skipped with no violation and no effect on the score;
\* the run does not abort, the other goals are processed and the score is
\* saved at the end of the run.
C4_UnparsableLimitIsSkipped ==
    UpdateCalled /\ (\E i \in 1..Len(goals.items) : ~LimitParses(i)) =>
        /\ raised = ""
        /\ saved # "none"
        /\ \A i \in 1..Len(goals.items) :
              (\E n \in 1..Len(violations) : violations[n].target = goals.items[i].k)
                  <=> i \in Over
        /\ Score(points) = Score(before) - SumOver(Over)

\* Two scoring runs in a row on the same usage and goals, the second
\* starting from the score the first saved.
RanTwice ==
    /\ Scored
    /\ saved = "ok"
    /\ prev.scored
    /\ prev.saved = "ok"
    /\ results = prev.results
    /\ goals = prev.goals
    /\ file0 = FileJson(prev.after)
    /\ before = prev.after

\* C5: two runs in sequence on identical goals and usage, the score saved
\* by the first and loaded by the second, end with the saved Points equal to
\* S - 2 * total_points_lost: each run applies the whole penalty again.
C5_SecondRunDeductsAgain ==
    RanTwice =>
        /\ pointsFile = FileJson(points)
        /\ Score(points) = Score(prev.before) - 2 * SumOver(Over)

C5_Witness == RanTwice /\ SumOver(Over) > 0 /\ Score(pointsFile.doc) < Score(prev.after)

\* A run of main that had rows and went to its end without an exception.
Completed == pc = "done" /\ raised = "" /\ results.rows # <<>>

\* C6 as stated: after the goals have been processed the score is written
\* to the store in every run, also one with an empty score store or an
\* empty goal mapping, so the store exists and is current after every run.
C6_SavedAfterEveryRun ==
    Completed => saved # "none" /\ pointsFile.kind # "missing"

\* C6, amended: update_points calls save_points with the updated score,
\* whether or not a goal was violated, exactly in the runs where the goal
\* mapping and the score mapping are both non-empty and it gets through the
\* goals without an exception, and the store then holds that score unless
\* the write fails; with an empty goal mapping or an empty score mapping
\* the update is skipped and update_points saves nothing.
C6_SavedWheneverScored ==
    pc = "done" /\ results.rows # <<>> =>
        /\ scored <=> (raised = "" /\ truthy(goals) /\ truthy(points))
        /\ saved # "none" <=> scored
        /\ saved = "ok" => pointsFile = FileJson(points)

\* A scoring run without a violation that saved the score.
C6_Witness ==
    /\ Completed
    /\ scored
    /\ violations = <<>>
    /\ saved = "ok"
    /\ pointsFile = FileJson(points)

\* C7: the score store holds the complete score of before the run or the
\* complete score of after it in every state, never a cut file, and a run
\* whose write of the store failed does not count as completed.
C7_PersistenceAllOrNothing ==
    /\ pointsFile = file0 \/ pointsFile = FileJson(points)
    /\ pc = "done" /\ saved \in {"open_error", "write_error"} => raised # ""

\* The goal store holds a non-empty mapping.
GoalsStored == goalsFile.kind = "json" /\ goalsFile.doc.t = "dict" /\ truthy(goalsFile.doc)

\* The run is over and query_database returned None or no row.
NoData == pc = "done" /\ results.rows = <<>>

\* C8 as stated: with no rows, or no usage source, and a non-empty goal
\* mapping the run completes, every goal is reported as having no usage,
\* there is no violation and the stored score is unchanged.
C8_GoalsReportedWithoutUsage ==
    NoData /\ GoalsStored =>
        /\ raised = ""
        /\ Len(report) = Len(goalsFile.doc.items)
        /\ \A i \in 1..Len(report) :
              report[i].target = goalsFile.doc.items[i].k /\ ~report[i].found
        /\ violations = <<>>
        /\ pointsFile = file0

\* C8, amended: with no rows, or no usage source, and a non-empty goal
\* mapping the run completes without an exception, loads and reports no
\* goal at all (it prints only that no data was retrieved), produces no
\* violation and leaves the stored score unchanged.
C8_NoDataEndsTheRun ==
    NoData /\ GoalsStored =>
        /\ raised = ""
        /\ goals = EmptyDict
        /\ report = <<>>
        /\ violations = <<>>
        /\ saved = "none"
        /\ pointsFile = file0

C8_Witness == NoData /\ GoalsStored /\ results.none /\ pointsFile.kind = "json"

\* A store that is missing, unreadable, no JSON, or JSON that is no mapping.
BadStore(file) == file.kind # "json" \/ file.doc.t # "dict"

\* C9: loading a goal store or a score store that is missing, unreadable or
\* malformed (no JSON, or JSON that is no mapping) yields an empty mapping
\* and no fatal error: the run goes on.
C9_BadStoreLoadsEmpty ==
    /\ raised # "PermissionError"
    /\ pc = "manage_goals" /\ BadStore(goalsFile) => goals = EmptyDict
    /\ pc = "update" /\ pointsFile = file0 /\ BadStore(file0) => points = EmptyDict
    /\ pc = "done" /\ results.rows # <<>> /\ BadStore(goalsFile) /\ BadStore(pointsFile)
          => raised = ""

\* C10: each app total is exactly the sum of duration_seconds / 60 over the
\* rows whose app normalises to that key, each domain total the same sum
\* over the rows with a domain normalising to that key: a row with a domain
\* counts in full in both, a row without one in the app totals only.
C10_TotalsAreExactSums ==
    LET rows == results.rows
    IN  pc # "start" =>
          /\ DOMAIN dfapp = AppKeys(rows)
          /\ \A k \in DOMAIN dfapp :
                IsMinutesOf(dfapp[k], SumSeconds(rows, AppRows(rows, k)))
          /\ DOMAIN dfdomian = DomainKeys(rows)
          /\ \A k \in DOMAIN dfdomian :
                IsMinutesOf(dfdomian[k], SumSeconds(rows, DomainRows(rows, k)))
          /\ app_usage(df) = dfapp
          /\ domain_usage(df) = dfdomian

\* Two rows with one app key, one of them with a domain, were aggregated.
C10_Witness ==
    /\ pc = "done"
    /\ scored
    /\ \E k \in DOMAIN dfapp :
          /\ Cardinality(AppRows(results.rows, k)) = 2
          /\ \E i, j \in AppRows(results.rows, k) :
                /\ results.rows[i].domain # None
                /\ results.rows[j].domain = None
                /\ results.rows[i].app # results.rows[j].app
          /\ dfapp[k] * 60 = Fx(5490)
    /\ \E k \in DOMAIN dfdomian : dfdomian[k] = Fx(90)

\* The identifier simplify_app_name was called on, and what it returned.
RawApp == results.rows[1].app

SimplifiedApp == df[1].app_simplified

\* The normalisation as it is stated: the first matching prefix of the
\* ordered list removed once, the rest cut before its first '.', the first
\* character upper-cased and every other character as it was.
normalize_app(raw) ==
    LET stripped == strip_first_prefix(raw, app_prefixes)
        cut      == IF contains(stripped, <<".">>) THEN split(stripped, ".")[1] ELSE stripped
    IN  [i \in 1..Len(cut) |-> IF i = 1 THEN upper_char(cut[i]) ELSE cut[i]]

\* C11: for every non-empty identifier simplify_app_name returns the
\* identifier with only the first matching prefix removed, cut before the
\* first '.' that remains, the first character capitalised and all other
\* characters left as they were.
C11_OnlyFirstCharacterChanged ==
    pc = "named" => SimplifiedApp = normalize_app(RawApp)

\* The value under 'Points' of a mapping that has one is a number.
NumericPoints(p) ==
    p.t = "dict" /\ dict_has(p.items, POINTS) => dict_get(p.items, POINTS, Num(0)).t = "num"

\* The run began with no score store and the user set the points.
SetOnEmptyStore == file0 = FileMissing /\ truthy(points)

\* C12: whatever set_points, save_points, load_points and update_points
\* did, the value under 'Points', in main and in the store, is a number,
\* and the scoring run that follows the first set_points on an empty store
\* subtracts its penalty without failing.
C12_PointsIsANumber ==
    /\ NumericPoints(points)
    /\ pointsFile.kind = "json" => NumericPoints(pointsFile.doc)
    /\ pc = "done" /\ SetOnEmptyStore => raised # "TypeError"

====
